---- MODULE Spec2Model ----
(***************************************************************************)
(* A model of the weather command line program (src/main.go).              *)
(*                                                                         *)
(* src/main.go holds two near-duplicate main packages: the one with the    *)
(* icon glyph (lines 1-215, errors through exitWithError) and the one      *)
(* without (lines 217-388, configuration errors through usageAndExit).     *)
(* The variable `variant` says which of the two programs is running.       *)
(*                                                                         *)
(* One run of main is modelled: flag.Parse consumes the command line one   *)
(* flag at a time, main joins the positional arguments and validates the   *)
(* options, fetchWeather issues the GET and decodes the body, and display  *)
(* prints the report.  Every fmt.Printf / fmt.Fprintf call is recorded as  *)
(* a record [format, args] appended to stdout or stderr.                   *)
(***************************************************************************)
EXTENDS Integers, Sequences, FiniteSets, TLC

VARIABLES
    variant,    \* "icon" (main.go:1-215) or "plain" (main.go:217-388)
    argv,       \* os.Args[1:], fixed for the run
    env,        \* value of OPENWEATHER_API_KEY
    args,       \* flag.CommandLine.args: the arguments not yet consumed
    actual,     \* flag.CommandLine.actual: flag name -> argument it was set from
    flagErr,    \* the error flag.Parse stopped on, NoFlagError when there is none
    opt,        \* the options record of main
    pc,         \* position of main
    resp,       \* what http.Get returned
    w,          \* *Weather returned by fetchWeather
    err,        \* error returned by fetchWeather
    stdout,     \* sequence of Printf calls written to standard output
    stderr,     \* sequence of Fprintf calls written to standard error
    exitCode,   \* exit status, meaningful when pc = "exited"
    gets,       \* number of http.Get calls issued
    decodes,    \* number of json Decode calls made
    hist        \* stages of main entered so far, in order

vars == <<variant, argv, env, args, actual, flagErr, opt, pc, resp, w, err,
          stdout, stderr, exitCode, gets, decodes, hist>>

-----------------------------------------------------------------------------
(* Bounds and input alphabets *)

MaxArgs == 3

Variants == {"icon", "plain"}

\* Command line words.  The only whitespace character used is the space.
FlagTokens == {"-key", "-v", "-units", "-h", "-x"}
ValueTokens == {"metric", "imperial", "", " ", "paris"}
Tokens == FlagTokens \cup ValueTokens

EnvValues == {"", "envkey"}

RECURSIVE SeqsUpTo(_, _)
SeqsUpTo(S, n) ==
    IF n = 0 THEN {<<>>}
    ELSE LET shorter == SeqsUpTo(S, n - 1)
         IN  shorter \cup {Append(s, x) : s \in {t \in shorter : Len(t) = n - 1}, x \in S}

-----------------------------------------------------------------------------
(* Strings *)

RECURSIVE Spaces(_)
Spaces(n) == IF n = 0 THEN "" ELSE " " \o Spaces(n - 1)

\* Mutant of TrimSpaceIsEmpty: the city is compared with "" without trimming.
TrimSpaceIsEmpty_NoTrim(s) == s = ""

\* strings.TrimSpace(s): for a string whose only whitespace is the space
\* character the result is empty exactly when s is all spaces.
TrimSpaceIsEmpty(s) == s = Spaces(Len(s))

\* strings.Join(elems, " ")
RECURSIVE Join(_)
Join(elems) ==
    IF Len(elems) = 0 THEN ""
    ELSE IF Len(elems) = 1 THEN elems[1]
    ELSE elems[1] \o " " \o Join(Tail(elems))

-----------------------------------------------------------------------------
(* Fixed texts of the program *)

StatusOK == 200

NoError == "<nil>"
NoWeather == [none |-> TRUE]
NoResponse == [kind |-> "none"]

\* An output call: the format string and the arguments it is applied to.
Out(format, a) == [format |-> format, args |-> a]

KeyRequired(v) ==
    IF v = "icon" THEN "OpenWeather API key is required"
                  ELSE "openweather api key is required"

CityRequired == "city name is required"

UnitsError(v) ==
    IF v = "icon" THEN "unit must be 'metric' or 'imperial'"
                  ELSE "unit must be 'metric' or 'imperial'\n"

\* flag.Usage as installed by main: four lines of text and flag.PrintDefaults,
\* all written to flag.CommandLine.Output(), which is standard error.
Usage(v) ==
    IF v = "icon"
    THEN << Out("weather displays the current weather of a given city.\n\n", <<>>),
            Out("usage:\n", <<>>),
            Out("\tweather [options] <city>\n\n", <<>>),
            Out("options:\n", <<>>),
            Out("PrintDefaults", <<"key", "units", "v">>) >>
    ELSE << Out("weather displays the current weather of a city.\n\n", <<>>),
            Out("USAGE:\n", <<>>),
            Out("\tweather [OPTIONS] <CITY-NAME>\n\n", <<>>),
            Out("OPTIONS:\n", <<>>),
            Out("PrintDefaults", <<"key", "units", "v">>) >>

\* Mutant of ExitWithErrorOutput: the message without its prefix.
ExitWithErrorOutput_NoPrefix(msg) == << Out("%s\n", <<msg>>) >>

\* exitWithError: one line on standard error, exit status 1.
ExitWithErrorOutput(msg) == << Out("ERROR: %s\n", <<msg>>) >>
ExitWithErrorCode == 1

\* usageAndExit: the message (when not empty), the usage text, exit status 2.
UsageAndExitOutput(v, msg) ==
    (IF msg # "" THEN << Out("ERROR: %s\n\n", <<msg>>) >> ELSE <<>>) \o Usage(v)
UsageAndExitCode == 2

\* How main reports a missing API key or a blank city name.
ConfigErrorOutput(v, msg) ==
    IF v = "icon" THEN ExitWithErrorOutput(msg) ELSE UsageAndExitOutput(v, msg)
ConfigErrorCode(v) ==
    IF v = "icon" THEN ExitWithErrorCode ELSE UsageAndExitCode

\* How main reports an error returned by fetchWeather: both programs print
\* "ERROR: <text>" on standard error and exit with status 1.
FetchErrorOutput(e) == << Out("ERROR: %s\n", <<e>>) >>
FetchErrorCode == 1

-----------------------------------------------------------------------------
(* The flag package as main configures it *)

\* The name a command line word denotes when it has flag syntax
\* (at least two characters, the first a '-').
FlagName(s) ==
    CASE s = "-key"   -> "key"
      [] s = "-v"     -> "v"
      [] s = "-units" -> "units"
      [] s = "-h"     -> "h"
      [] s = "-x"     -> "x"

IsFlagSyntax(s) == s \in FlagTokens

\* The flags main defines: key and units take a value, v is boolean.
Formal == {"key", "v", "units"}
IsBoolFlag(name) == name = "v"

\* Mutant of UnitsValid: the function never returns its error.
UnitsValid_NeverRejects(value) == value = value

\* The function given to flag.Func for -units.
UnitsValid(value) == value = "metric" \/ value = "imperial"

\* Exit statuses of flag.Parse under flag.ExitOnError.
ParseErrorCode == 2
ParseHelpCode == 0

\* flag.ErrHelp, the error of a -h or -help that main does not define.
ErrHelp == Out("flag: help requested", <<>>)

\* No error from flag.Parse.
NoFlagError == Out("<nil>", <<>>)

\* Mutant of Failf: the error text without the usage text.
Failf_NoUsage(v, e) == << Out(e.format \o "\n", e.args) >>

\* flag.failf: the error text on a line of its own, then the usage text,
\* both on standard error.
Failf(v, e) == << Out(e.format \o "\n", e.args) >> \o Usage(v)

\* Mutant of InitialOptions: the -key flag defaults to "" and not to the
\* environment variable.
InitialOptions_NoEnv(e) ==
    [apiKey |-> "", units |-> "metric", verbose |-> FALSE, city |-> ""]

\* The options before flag.Parse: units "metric", apiKey the environment
\* variable (the default of the -key flag), verbose false, city not yet set.
InitialOptions(e) ==
    [apiKey |-> e, units |-> "metric", verbose |-> FALSE, city |-> ""]

-----------------------------------------------------------------------------
(* The network and the provider's answer *)

MaxWeather == 2

\* Status codes the provider may answer with; 299 has no standard reason phrase.
StatusCodes == {200, 201, 299, 404, 429}

\* http.StatusText
StatusText(code) ==
    CASE code = 200 -> "OK"
      [] code = 201 -> "Created"
      [] code = 401 -> "Unauthorized"
      [] code = 404 -> "Not Found"
      [] code = 429 -> "Too Many Requests"
      [] OTHER      -> ""

Digit(d) ==
    CASE d = 0 -> "0" [] d = 1 -> "1" [] d = 2 -> "2" [] d = 3 -> "3" [] d = 4 -> "4"
      [] d = 5 -> "5" [] d = 6 -> "6" [] d = 7 -> "7" [] d = 8 -> "8" [] d = 9 -> "9"

\* The %d verb for a number that is not negative.
RECURSIVE Itoa(_)
Itoa(n) == IF n < 10 THEN Digit(n) ELSE Itoa(n \div 10) \o Digit(n % 10)

\* fmt.Errorf("request status %d %s", code, http.StatusText(code))
StatusError(code) == "request status " \o Itoa(code) \o " " \o StatusText(code)

\* Elements of the "weather" array: one icon the table knows, one it does not.
WeatherItems ==
    { [main |-> "Clouds", description |-> "broken clouds", icon |-> "04d"],
      [main |-> "Ash",    description |-> "volcanic ash",  icon |-> "99x"] }

\* The other fields of the answer; floats are held in tenths.
Readings ==
    { [name |-> "Paris", timezone |-> 3600, visibility |-> 100000,
       temp |-> 32, pressure |-> 10110, humidity |-> 810, speed |-> 77, deg |-> 100] }

\* Response bodies: JSON text that decodes into the response struct, or
\* text the decoder rejects.
GoodBodies ==
    { [json |-> "ok", weather |-> ws, main |-> r]
        : ws \in SeqsUpTo(WeatherItems, MaxWeather), r \in Readings }
BadBody == [json |-> "malformed"]
DecodeErrorText == "invalid character '<' looking for beginning of value"
NetErrorText == "Get: dial tcp: connection refused"

\* A body that stands for what accompanies an error status.
SomeGoodBody == CHOOSE b \in GoodBodies : Len(b.weather) = 1

\* What http.Get can return: a transport error, or a response.
Responses ==
    { [kind |-> "neterr", text |-> NetErrorText] }
    \cup { [kind |-> "http", status |-> StatusOK, body |-> b] : b \in GoodBodies \cup {BadBody} }
    \cup { [kind |-> "http", status |-> c, body |-> b]
             : c \in StatusCodes \ {StatusOK}, b \in {SomeGoodBody, BadBody} }

\* Mutant of FirstConditions: the last element of the array, not the first.
FirstConditions_Last(ws) == IF Len(ws) > 0 THEN ws[Len(ws)].description ELSE ""

\* fetchWeather, lines 88-104 (icon) and 298-313 (plain): the Weather record
\* built from a decoded response.  Only the icon program has the Icon field.
FirstConditions(ws) == IF Len(ws) > 0 THEN ws[1].description ELSE ""
FirstIcon(ws) == IF Len(ws) > 0 THEN ws[1].icon ELSE ""

MakeWeather(v, res) ==
    LET base == [CityName    |-> res.main.name,
                 TimeZone    |-> res.main.timezone,
                 Visibility  |-> res.main.visibility,
                 Temperature |-> res.main.temp,
                 Pressure    |-> res.main.pressure,
                 Humidity    |-> res.main.humidity,
                 WindSpeed   |-> res.main.speed,
                 WindDegrees |-> res.main.deg,
                 Conditions  |-> FirstConditions(res.weather)]
    IN  IF v = "icon" THEN base @@ [Icon |-> FirstIcon(res.weather)] ELSE base

\* Mutant of FetchResult: every 2xx status is taken for a success.
FetchResult_Any2xx(v, r) ==
    IF r.kind = "neterr"
    THEN [w |-> NoWeather, err |-> r.text, decoded |-> FALSE]
    ELSE IF r.status < 200 \/ r.status >= 300
    THEN [w |-> NoWeather, err |-> StatusError(r.status), decoded |-> FALSE]
    ELSE IF r.body.json # "ok"
    THEN [w |-> NoWeather, err |-> DecodeErrorText, decoded |-> TRUE]
    ELSE [w |-> MakeWeather(v, r.body), err |-> NoError, decoded |-> TRUE]

\* The (w, err, decoded) that fetchWeather returns for what http.Get returned.
FetchResult(v, r) ==
    IF r.kind = "neterr"
    THEN [w |-> NoWeather, err |-> r.text, decoded |-> FALSE]
    ELSE IF r.status # StatusOK
    THEN [w |-> NoWeather, err |-> StatusError(r.status), decoded |-> FALSE]
    ELSE IF r.body.json # "ok"
    THEN [w |-> NoWeather, err |-> DecodeErrorText, decoded |-> TRUE]
    ELSE [w |-> MakeWeather(v, r.body), err |-> NoError, decoded |-> TRUE]

\* weatherIconToString
weatherIconToString(icon) ==
    CASE icon = "01d" -> "sun"
      [] icon = "02d" -> "sun behind cloud"
      [] icon = "03d" -> "cloud"
      [] icon = "04d" -> "cloud"
      [] icon = "09d" -> "cloud with rain"
      [] icon = "10d" -> "sun behind rain cloud"
      [] icon = "11d" -> "cloud with lightning and rain"
      [] icon = "13d" -> "snowflake"
      [] icon = "50d" -> "fog"
      [] icon = "01n" -> "new moon"
      [] icon = "02n" -> "sun behind cloud"
      [] icon = "03n" -> "cloud"
      [] icon = "04n" -> "cloud"
      [] icon = "09n" -> "cloud with rain"
      [] icon = "10n" -> "sun behind rain cloud"
      [] icon = "11n" -> "cloud with lightning and rain"
      [] icon = "13n" -> "snowflake"
      [] icon = "50n" -> "fog"
      [] OTHER        -> ""

\* The instant time.Now() returns, in seconds.
Clock == {86399}

TemperatureSymbol(units) == IF units = "imperial" THEN "F" ELSE "C"
WindSpeedSymbol(units) == IF units = "imperial" THEN "mi/h" ELSE "m/s"

\* Mutant of DisplayIcon: the verbose report without its separator line.
DisplayIcon_NoSeparator(wt, o, now) ==
    LET weatherSymbol == weatherIconToString(wt.Icon)
    IN  IF o.verbose
        THEN << Out("%s %s\n", <<wt.CityName, now + wt.TimeZone>>),
                Out("condition: %s %s\n", <<weatherSymbol, wt.Conditions>>),
                Out("temperature: %.0f°%s\n", <<wt.Temperature, TemperatureSymbol(o.units)>>),
                Out("pressure: %.0f hPa\n", <<wt.Pressure>>),
                Out("humidity: %.1f%%\n", <<wt.Humidity>>),
                Out("wind: %.0f° %.1f %s\n",
                    <<wt.WindDegrees, wt.WindSpeed, WindSpeedSymbol(o.units)>>) >>
        ELSE << Out("%s %0.f°%s %s %s\n",
                    <<wt.CityName, wt.Temperature, TemperatureSymbol(o.units),
                      weatherSymbol, wt.Conditions>>) >>

\* display of the icon program (lines 152-173).
DisplayIcon(wt, o, now) ==
    LET weatherSymbol == weatherIconToString(wt.Icon)
    IN  IF o.verbose
        THEN << Out("%s %s\n", <<wt.CityName, now + wt.TimeZone>>),
                Out("========================\n", <<>>),
                Out("condition: %s %s\n", <<weatherSymbol, wt.Conditions>>),
                Out("temperature: %.0f°%s\n", <<wt.Temperature, TemperatureSymbol(o.units)>>),
                Out("pressure: %.0f hPa\n", <<wt.Pressure>>),
                Out("humidity: %.1f%%\n", <<wt.Humidity>>),
                Out("wind: %.0f° %.1f %s\n",
                    <<wt.WindDegrees, wt.WindSpeed, WindSpeedSymbol(o.units)>>) >>
        ELSE << Out("%s %0.f°%s %s %s\n",
                    <<wt.CityName, wt.Temperature, TemperatureSymbol(o.units),
                      weatherSymbol, wt.Conditions>>) >>

\* display of the plain program (lines 316-335).
DisplayPlain(wt, o, now) ==
    IF o.verbose
    THEN << Out("%s %s\n", <<wt.CityName, now + wt.TimeZone>>),
            Out("========================\n", <<>>),
            Out("condition: %s\n", <<wt.Conditions>>),
            Out("temperature: %.0f °%s\n", <<wt.Temperature, TemperatureSymbol(o.units)>>),
            Out("pressure: %.0f hPa\n", <<wt.Pressure>>),
            Out("humidity: %.1f%%\n", <<wt.Humidity>>),
            Out("wind: %.0f° %.1f %s\n",
                <<wt.WindDegrees, wt.WindSpeed, WindSpeedSymbol(o.units)>>) >>
    ELSE << Out("%s  %s  %0.f °%s\n",
                <<wt.CityName, wt.Conditions, wt.Temperature, TemperatureSymbol(o.units)>>) >>

DisplayOutput(v, wt, o, now) ==
    IF v = "icon" THEN DisplayIcon(wt, o, now) ELSE DisplayPlain(wt, o, now)

-----------------------------------------------------------------------------
(* The run of main *)

Init ==
    /\ variant \in Variants
    /\ argv \in SeqsUpTo(Tokens, MaxArgs)
    /\ env \in EnvValues
    /\ args = argv
    /\ actual = << >>
    /\ flagErr = NoFlagError
    /\ opt = InitialOptions(env)
    /\ pc = "parse"
    /\ resp = NoResponse
    /\ w = NoWeather
    /\ err = NoError
    /\ stdout = << >>
    /\ stderr = << >>
    /\ exitCode = 0
    /\ gets = 0
    /\ decodes = 0
    /\ hist = << "parse" >>

\* os.Exit(code) after writing `lines` to standard error.
Die(lines, code) ==
    /\ stderr' = stderr \o lines
    /\ exitCode' = code
    /\ pc' = "exited"
    /\ hist' = hist \o << "error", "exit" >>

\* parseOne's error for the flag at the head of the arguments, and the
\* arguments left once it is returned (the flag is consumed before it is
\* looked up, its value before it is set).
ParseError(a, v) ==
    LET name == FlagName(a[1])
        rest == Tail(a)
    IN  IF name \notin Formal
        THEN [err  |-> IF name = "h" THEN ErrHelp
                       ELSE Out("flag provided but not defined: -%s", <<name>>),
              left |-> rest]
        ELSE IF IsBoolFlag(name)
        THEN [err |-> NoFlagError, left |-> rest]
        ELSE IF Len(rest) = 0
        THEN [err |-> Out("flag needs an argument: -%s", <<name>>), left |-> rest]
        ELSE IF name = "units" /\ ~UnitsValid(rest[1])
        THEN [err  |-> Out("invalid value %q for flag -%s: %v",
                           <<rest[1], name, UnitsError(v)>>),
              left |-> Tail(rest)]
        ELSE [err |-> NoFlagError, left |-> Tail(rest)]

\* The record of a flag that was set: flag.CommandLine.actual[name].
SetActual(name, value) ==
    [n \in (DOMAIN actual) \cup {name} |-> IF n = name THEN value ELSE actual[n]]

\* flag.Parse, one flag at a time: a defined flag is consumed and set.
\* -v needs no argument; -key and -units take the next word as their value.
ParseFlag ==
    /\ pc = "parse"
    /\ Len(args) > 0
    /\ IsFlagSyntax(args[1])
    /\ LET name == FlagName(args[1])
           rest == Tail(args)
       IN  /\ ParseError(args, variant).err = NoFlagError
           /\ IF IsBoolFlag(name)
              THEN /\ opt' = [opt EXCEPT !.verbose = TRUE]
                   /\ actual' = SetActual(name, "true")
                   /\ args' = rest
              ELSE /\ opt' = IF name = "key" THEN [opt EXCEPT !.apiKey = rest[1]]
                                             ELSE [opt EXCEPT !.units = rest[1]]
                   /\ actual' = SetActual(name, rest[1])
                   /\ args' = Tail(rest)
    /\ UNCHANGED <<variant, argv, env, flagErr, pc, resp, w, err, stdout, stderr,
                   exitCode, gets, decodes, hist>>

\* flag.Parse fails: a flag that is not defined, a value flag with no
\* argument left, or a -units value the function rejects.  The error and the
\* usage text go to standard error and the process exits with status 2.
ParseFail ==
    /\ pc = "parse"
    /\ Len(args) > 0
    /\ IsFlagSyntax(args[1])
    /\ LET e == ParseError(args, variant)
       IN  /\ e.err \notin {NoFlagError, ErrHelp}
           /\ flagErr' = e.err
           /\ args' = e.left
           /\ Die(Failf(variant, e.err), ParseErrorCode)
    /\ UNCHANGED <<variant, argv, env, actual, opt, resp, w, err, stdout,
                   gets, decodes>>

\* flag.Parse meets -h, which main does not define: the usage text goes to
\* standard error and the process exits with status 0.
ParseHelp ==
    /\ pc = "parse"
    /\ Len(args) > 0
    /\ IsFlagSyntax(args[1])
    /\ LET e == ParseError(args, variant)
       IN  /\ e.err = ErrHelp
           /\ flagErr' = e.err
           /\ args' = e.left
    /\ stderr' = stderr \o Usage(variant)
    /\ exitCode' = ParseHelpCode
    /\ pc' = "exited"
    /\ hist' = hist \o << "help", "exit" >>
    /\ UNCHANGED <<variant, argv, env, actual, opt, resp, w, err, stdout,
                   gets, decodes>>

\* flag.Parse returns: no argument is left, or the next one is not a flag.
ParseDone ==
    /\ pc = "parse"
    /\ IF Len(args) = 0 THEN TRUE ELSE ~IsFlagSyntax(args[1])
    /\ pc' = "validate"
    /\ hist' = Append(hist, "validate")
    /\ UNCHANGED <<variant, argv, env, args, actual, flagErr, opt, resp, w, err,
                   stdout, stderr, exitCode, gets, decodes>>

\* main, lines 199-207 (icon) and 370-378 (plain): the city is the remaining
\* arguments joined with spaces; an empty key or a blank city ends the run.
Validate ==
    /\ pc = "validate"
    /\ LET city == Join(args)
       IN  /\ opt' = [opt EXCEPT !.city = city]
           /\ IF opt.apiKey = ""
              THEN Die(ConfigErrorOutput(variant, KeyRequired(variant)),
                       ConfigErrorCode(variant))
              ELSE IF TrimSpaceIsEmpty(city)
              THEN Die(ConfigErrorOutput(variant, CityRequired),
                       ConfigErrorCode(variant))
              ELSE /\ pc' = "fetch"
                   /\ UNCHANGED <<stderr, exitCode, hist>>
    /\ UNCHANGED <<variant, argv, env, args, actual, flagErr, resp, w, err, stdout,
                   gets, decodes>>

\* fetchWeather: one http.Get; the body is decoded when the status is 200.
\* The URL that makeRequestURL builds decides nothing here, since the answer
\* of the network is arbitrary.
FetchWeather ==
    /\ pc = "fetch"
    /\ \E r \in Responses :
         LET res == FetchResult(variant, r)
         IN  /\ resp' = r
             /\ gets' = gets + 1
             /\ decodes' = IF res.decoded THEN decodes + 1 ELSE decodes
             /\ w' = res.w
             /\ err' = res.err
             /\ hist' = hist \o (IF res.decoded THEN << "build URL", "fetch", "decode" >>
                                                ELSE << "build URL", "fetch" >>)
    /\ pc' = "fetched"
    /\ UNCHANGED <<variant, argv, env, args, actual, flagErr, opt, stdout, stderr,
                   exitCode>>

\* Mutant of FetchFailed: the error is printed and main returns, so the exit
\* status is 0.
FetchFailed_Returns ==
    /\ pc = "fetched"
    /\ err # NoError
    /\ Die(FetchErrorOutput(err), 0)
    /\ UNCHANGED <<variant, argv, env, args, actual, flagErr, opt, resp, w, err,
                   stdout, gets, decodes>>

\* Mutant of FetchFailed: the error is printed and the request is made again.
FetchFailed_Retries ==
    /\ pc = "fetched"
    /\ err # NoError
    /\ stderr' = stderr \o FetchErrorOutput(err)
    /\ pc' = "fetch"
    /\ UNCHANGED <<variant, argv, env, args, actual, flagErr, opt, resp, w, err,
                   stdout, exitCode, gets, decodes, hist>>

\* main, lines 210-212 (icon) and 381-384 (plain): fetchWeather failed.
FetchFailed ==
    /\ pc = "fetched"
    /\ err # NoError
    /\ Die(FetchErrorOutput(err), FetchErrorCode)
    /\ UNCHANGED <<variant, argv, env, args, actual, flagErr, opt, resp, w, err,
                   stdout, gets, decodes>>

\* main, line 214 (icon) and 386 (plain): display, then main returns.
Display ==
    /\ pc = "fetched"
    /\ err = NoError
    /\ \E now \in Clock :
         stdout' = stdout \o DisplayOutput(variant, w, opt, now)
    /\ exitCode' = 0
    /\ pc' = "exited"
    /\ hist' = hist \o << "format", "print", "exit" >>
    /\ UNCHANGED <<variant, argv, env, args, actual, flagErr, opt, resp, w, err,
                   stderr, gets, decodes>>

Next ==
    \/ ParseFlag
    \/ ParseFail
    \/ ParseHelp
    \/ ParseDone
    \/ Validate
    \/ FetchWeather
    \/ FetchFailed
    \/ Display

Spec == Init /\ [][Next]_vars

-----------------------------------------------------------------------------
(* Vocabulary of the properties *)

Has(h, x) == \E i \in DOMAIN h : h[i] = x

Exited == pc = "exited"

\* flag.Parse returned to main.
ParseCompleted == Has(hist, "validate")
HelpRequested == flagErr = ErrHelp
ParseFailed == flagErr \notin {NoFlagError, ErrHelp}
InvalidUnits == flagErr.format = "invalid value %q for flag -%s: %v"

\* The city name: the positional arguments joined with single spaces.
CityName == Join(args)
CityIsBlank == CityName \in {"", " ", "  ", "   ", "    ", "     ", "      ", "       "}

\* The ways a run fails.
MissingKey == Exited /\ ParseCompleted /\ opt.apiKey = ""
BlankCity == Exited /\ ParseCompleted /\ opt.apiKey # "" /\ CityIsBlank
NetworkFailure == resp.kind = "neterr"
StatusFailure == resp.kind = "http" /\ resp.status # 200
DecodeFailure == resp.kind = "http" /\ resp.status = 200 /\ resp.body.json = "malformed"
Decoded == resp.kind = "http" /\ resp.status = 200 /\ resp.body.json = "ok"

\* A format that begins with "ERROR:".
ErrorPrefixed(format) == \E rest \in {"%s\n", "%s\n\n"} : format = "ERROR: " \o rest

\* The usage text was written to standard error.
UsageEmitted ==
    \E i \in DOMAIN stderr :
        /\ stderr[i].format \in {"usage:\n", "USAGE:\n"}
        /\ Has(stderr, Out("PrintDefaults", <<"key", "units", "v">>))

\* The part of a report line before its first argument.
LineKind(format) ==
    CASE format = "%s %s\n" -> "header"
      [] format = "========================\n" -> "separator"
      [] format \in {"condition: %s %s\n", "condition: %s\n"} -> "condition"
      [] format \in {"temperature: %.0f°%s\n", "temperature: %.0f °%s\n"} -> "temperature"
      [] format = "pressure: %.0f hPa\n" -> "pressure"
      [] format = "humidity: %.1f%%\n" -> "humidity"
      [] format = "wind: %.0f° %.1f %s\n" -> "wind"
      [] format \in {"%s %0.f°%s %s %s\n", "%s  %s  %0.f °%s\n"} -> "summary"
      [] OTHER -> "other"

Kinds(out) == [i \in DOMAIN out |-> LineKind(out[i].format)]

VerboseKinds ==
    << "header", "separator", "condition", "temperature", "pressure", "humidity", "wind" >>

\* Standard output holds the whole report of the mode asked for.
CompleteReport ==
    Kinds(stdout) = IF opt.verbose THEN VerboseKinds ELSE << "summary" >>

-----------------------------------------------------------------------------
(* C1 *)

\* C1 as stated: a run whose API key is empty or whose city name is blank
\* ends with a non-zero exit status and never calls http.Get.
C1_AsStated ==
    Exited /\ (opt.apiKey = "" \/ CityIsBlank) => exitCode # 0 /\ gets = 0

\* C1: a run whose API key is empty or whose city name is blank never calls
\* http.Get, and it ends with a non-zero exit status unless flag.Parse met -h,
\* in which case the usage text is printed and the exit status is 0.
C1_NoFetchWithoutKeyOrCity ==
    (opt.apiKey = "" \/ CityIsBlank) /\ pc \in {"fetch", "fetched", "exited"} =>
        /\ gets = 0
        /\ pc = "exited"
        /\ IF HelpRequested THEN exitCode = 0 /\ UsageEmitted ELSE exitCode # 0

C1_Witness ==
    /\ Exited /\ ParseCompleted
    /\ opt.apiKey # "" /\ CityName = "  "
    /\ exitCode # 0 /\ gets = 0

-----------------------------------------------------------------------------
(* C2 *)

\* C2: when flag.Parse is about to set -units from a value other than
\* "metric" or "imperial", the next step ends the run with the usage text on
\* standard error and a non-zero exit status, no http.Get made; and in every
\* run that reaches fetchWeather opt.units is "metric" or "imperial".
C2_UnitsRejectedBeforeFetch ==
    /\ [](pc \in {"fetch", "fetched"} \/ gets > 0 => opt.units \in {"metric", "imperial"})
    /\ [][ (/\ pc = "parse"
            /\ Len(args) >= 2
            /\ args[1] = "-units"
            /\ args[2] \notin {"metric", "imperial"})
           => (/\ pc' = "exited"
               /\ exitCode' # 0
               /\ gets' = 0
               /\ opt'.units = opt.units
               /\ UsageEmitted') ]_vars

C2_Witness ==
    /\ Exited /\ InvalidUnits
    /\ flagErr.args[1] = "paris"
    /\ exitCode = 2 /\ gets = 0 /\ UsageEmitted
    /\ Has(actual, "true")

-----------------------------------------------------------------------------
(* C3 *)

\* A run that ended well: the report is complete and the exit status is 0.
EndedWell ==
    /\ gets = 1 /\ Decoded /\ err = NoError
    /\ CompleteReport
    /\ exitCode = 0

\* A run that ended in a failure: nothing on standard output, exit status not 0.
EndedInFailure ==
    /\ \/ ParseFailed \/ MissingKey \/ BlankCity
       \/ NetworkFailure \/ StatusFailure \/ DecodeFailure
    /\ stdout = << >>
    /\ exitCode # 0

\* C3 as stated: every run that has ended either succeeded, printed the whole
\* report and exited with 0, or failed, printed nothing on standard output
\* and exited with a status that is not 0.
C3_AsStated == Exited => EndedWell \/ EndedInFailure

\* C3: standard output is empty until the whole report is written at once;
\* every run that has ended either succeeded, printed the whole report and
\* exited with 0, or failed, printed nothing on standard output and exited
\* with a status that is not 0, or was asked for help with -h, printed nothing
\* on standard output and exited with 0.
C3_NoPartialOutput ==
    /\ ~Exited => stdout = << >>
    /\ Exited =>
         \/ EndedWell /\ ~HelpRequested /\ ~EndedInFailure
         \/ EndedInFailure /\ ~HelpRequested
         \/ HelpRequested /\ stdout = << >> /\ exitCode = 0 /\ gets = 0

C3_Witness ==
    /\ Exited /\ DecodeFailure
    /\ stdout = << >> /\ exitCode = 1 /\ decodes = 1

-----------------------------------------------------------------------------
(* C4 *)

\* The stages of a run in their order; an error and a help request come
\* after every stage of the pipeline and before the exit.
Rank(stage) ==
    CASE stage = "parse"     -> 1
      [] stage = "validate"  -> 2
      [] stage = "build URL" -> 3
      [] stage = "fetch"     -> 4
      [] stage = "decode"    -> 5
      [] stage = "format"    -> 6
      [] stage = "print"     -> 7
      [] stage = "error"     -> 8
      [] stage = "help"      -> 8
      [] stage = "exit"      -> 9

\* C4: the stages are entered in the order parse, validate, build URL, fetch,
\* decode, format, print, exit, none of them twice; at most one http.Get is
\* issued and at most one body decoded; and once an error is reported the run
\* has exited, with nothing formatted or printed.  A run that has not exited
\* always has a next step, and a run that has exited has none.
C4_LinearControlFlow ==
    /\ Exited <=> ~ENABLED Next
    /\ gets <= 1
    /\ decodes <= gets
    /\ \A i, j \in DOMAIN hist : i < j => Rank(hist[i]) < Rank(hist[j])
    /\ Has(hist, "fetch") <=> gets = 1
    /\ Has(hist, "error") =>
         /\ Exited
         /\ hist[Len(hist)] = "exit" /\ hist[Len(hist) - 1] = "error"
         /\ ~Has(hist, "format") /\ ~Has(hist, "print")
         /\ stdout = << >>
         /\ stderr # << >>

C4_Witness ==
    /\ Exited /\ StatusFailure
    /\ hist = << "parse", "validate", "build URL", "fetch", "error", "exit" >>
    /\ gets = 1

-----------------------------------------------------------------------------
(* C5 *)

\* The error text of each status, written out.
StatusErrorText(code) ==
    CASE code = 201 -> "request status 201 Created"
      [] code = 299 -> "request status 299 "
      [] code = 401 -> "request status 401 Unauthorized"
      [] code = 404 -> "request status 404 Not Found"
      [] code = 429 -> "request status 429 Too Many Requests"

\* C5: for every response whose status is not 200 fetchWeather returns the
\* error "request status <code> <reason>" and no Weather, the body is not
\* decoded, and main reports that error and exits with a non-zero status;
\* the body is decoded only when the status is 200.
C5_StatusErrors ==
    /\ resp.kind = "http" /\ resp.status # 200 =>
         /\ err = StatusErrorText(resp.status)
         /\ w = NoWeather
         /\ decodes = 0
         /\ Exited => /\ stderr = << Out("ERROR: %s\n", <<StatusErrorText(resp.status)>>) >>
                      /\ stdout = << >>
                      /\ exitCode # 0
    /\ decodes > 0 => resp.kind = "http" /\ resp.status = 200

C5_Witness ==
    /\ Exited /\ resp.kind = "http" /\ resp.status = 404
    /\ resp.body.json = "ok"
    /\ err = "request status 404 Not Found"
    /\ decodes = 0

-----------------------------------------------------------------------------
(* C6 *)

\* The run failed in one of the ways C6 lists.
MainFailure == MissingKey \/ BlankCity \/ NetworkFailure \/ StatusFailure \/ DecodeFailure
ListedFailure == MainFailure \/ InvalidUnits

\* The error message is the first thing on standard error and begins "ERROR:".
ErrorLineFirst == stderr # << >> /\ ErrorPrefixed(stderr[1].format)

\* C6 as stated: a run that failed for a missing API key, a blank city, an
\* invalid -units value, a network failure, a status other than 200 or a
\* decode failure wrote a message beginning "ERROR:" to standard error, and
\* the weather summary goes to standard output only.
C6_AsStated ==
    /\ Exited /\ ListedFailure => ErrorLineFirst /\ stdout = << >>
    /\ Exited /\ stdout # << >> => stderr = << >>

\* C6: a run that failed for a missing API key, a blank city, a network
\* failure, a status other than 200 or a decode failure wrote a message
\* beginning "ERROR:" to standard error and nothing to standard output; a run
\* that failed for an invalid -units value wrote the flag package's message
\* "invalid value ... for flag -units: ..." to standard error, without the
\* "ERROR:" prefix, and nothing to standard output; a run that printed the
\* weather summary wrote it to standard output and nothing to standard error.
C6_ErrorsOnStderr ==
    /\ Exited /\ MainFailure =>
         /\ ErrorLineFirst
         /\ Len(stderr[1].args) = 1
         /\ stdout = << >>
    /\ Exited /\ InvalidUnits =>
         /\ stderr # << >>
         /\ stderr[1].format = "invalid value %q for flag -%s: %v\n"
         /\ stderr[1].args[2] = "units"
         /\ ~ErrorPrefixed(stderr[1].format)
         /\ stdout = << >>
    /\ stdout # << >> => Exited /\ stderr = << >> /\ CompleteReport

C6_Witness ==
    /\ Exited /\ NetworkFailure
    /\ stderr = << Out("ERROR: %s\n", <<NetErrorText>>) >>
    /\ stdout = << >>

-----------------------------------------------------------------------------
(* C7 *)

\* C7 as stated: a run that failed for a missing API key, a blank city or an
\* invalid -units value wrote the usage text before it exited.
C7_AsStated ==
    Exited /\ (MissingKey \/ BlankCity \/ InvalidUnits) => UsageEmitted

\* C7: a run that failed for an invalid -units value wrote the usage text
\* before it exited; a run that failed for a missing API key or a blank city
\* wrote the usage text when the program is the one without the icon glyph
\* (usageAndExit), and only the "ERROR:" line when it is the one with the
\* icon glyph (exitWithError).
C7_UsageHint ==
    /\ Exited /\ InvalidUnits => UsageEmitted /\ Len(stderr) = 6
    /\ Exited /\ (MissingKey \/ BlankCity) =>
         IF variant = "plain"
         THEN UsageEmitted /\ Len(stderr) = 6 /\ exitCode = 2
         ELSE ~UsageEmitted /\ Len(stderr) = 1 /\ exitCode = 1

C7_Witness ==
    /\ Exited /\ MissingKey /\ variant = "icon"
    /\ ~UsageEmitted
    /\ stderr = << Out("ERROR: %s\n", <<"OpenWeather API key is required">>) >>

-----------------------------------------------------------------------------
(* C8 *)

\* The "API key is required" error is on standard error.
KeyErrorRaised ==
    \E i \in DOMAIN stderr :
        stderr[i].args \in { <<"OpenWeather API key is required">>,
                             <<"openweather api key is required">> }

-----------------------------------------------------------------------------
(* C9 *)

\* C9 as stated: the verbose report has exactly 6 lines.
C9_AsStated ==
    Exited /\ Decoded /\ opt.verbose => Len(stdout) = 6

\* C9: the verbose report of a decoded response has exactly 7 lines: header
\* (city and timestamp), separator of 24 '=' characters, condition,
\* temperature, pressure, humidity, wind, each once and in this order.
C9_VerboseReport ==
    Exited /\ Decoded /\ opt.verbose =>
        /\ Len(stdout) = 7
        /\ Kinds(stdout) = << "header", "separator", "condition", "temperature",
                              "pressure", "humidity", "wind" >>
        /\ stdout[1].args[1] = resp.body.main.name
        /\ \E now \in Clock : stdout[1].args[2] = now + resp.body.main.timezone
        /\ stdout[2].format = "========================\n"

C9_Witness ==
    /\ Exited /\ Decoded /\ opt.verbose
    /\ Len(stdout) = 7
    /\ stdout[1].args[1] = "Paris"

-----------------------------------------------------------------------------
(* C10 *)

\* The glyph and the condition text that the report shows.
ShownCondition ==
    IF variant = "icon"
    THEN IF opt.verbose THEN stdout[3].args ELSE SubSeq(stdout[1].args, 4, 5)
    ELSE IF opt.verbose THEN stdout[3].args ELSE << stdout[1].args[2] >>

\* C10: when a 200 response decodes, fetchWeather returns no error and the
\* run prints the report and exits with 0; with an empty weather array
\* Conditions and Icon are the empty string and the glyph is empty; with a
\* non-empty array Conditions and Icon are those of its first element.  (Only
\* the program with the icon glyph has the Icon field and the glyph.)
C10_FirstWeatherElement ==
    Decoded =>
      LET ws == resp.body.weather
      IN  /\ err = NoError
          /\ w # NoWeather
          /\ w.Conditions = IF Len(ws) = 0 THEN "" ELSE ws[1].description
          /\ variant = "icon" =>
               /\ w.Icon = IF Len(ws) = 0 THEN "" ELSE ws[1].icon
               /\ Len(ws) = 0 => weatherIconToString(w.Icon) = ""
          /\ Exited =>
               /\ exitCode = 0
               /\ CompleteReport
               /\ stderr = << >>
               /\ ShownCondition =
                    IF variant = "plain"
                    THEN << IF Len(ws) = 0 THEN "" ELSE ws[1].description >>
                    ELSE IF Len(ws) = 0 THEN << "", "" >>
                    ELSE << IF ws[1].icon = "04d" THEN "cloud" ELSE "",
                            ws[1].description >>

C10_Witness ==
    /\ Exited /\ Decoded /\ variant = "icon"
    /\ Len(resp.body.weather) = 0
    /\ w.Conditions = "" /\ w.Icon = ""
    /\ exitCode = 0 /\ stdout # << >>

====
